---- MODULE Spec2Model ----
(***************************************************************************)
(* Model of record-recording-splitter: the track aligner, the silence      *)
(* classifier, the side partitioner, the duration conversions and the      *)
(* pipeline driver (record_splitter.py, fetch_album_data.py, main.py,      *)
(* split_audio.py, detect_silence.py).                                     *)
(*                                                                         *)
(* A silence interval is the Python tuple (start_ms, end_ms), modelled as  *)
(* the TLA+ tuple <<start_ms, end_ms>>: Python s[0] is s[1] here and       *)
(* Python s[1] is s[2].  A track is the dict {title, duration_ms}.         *)
(***************************************************************************)
EXTENDS Integers, Sequences, FiniteSets, TLC

VARIABLES
    pc,               \* position of the operation under analysis
    tracks,           \* align_tracks_to_silences: argument tracks
    silences,         \* align_tracks_to_silences: argument silences
    start_offset,     \* align_tracks_to_silences: argument start_offset
    aligned_tracks,   \* align_tracks_to_silences: return value
    silence_intervals,  \* find_side_break argument / main: detected silences
    side_break,         \* find_side_break result / main: side_break
    side_a_silences,    \* main: side_a_silences
    side_b_silences,    \* main: side_b_silences
    ms,                 \* format_duration argument (track length, ms)
    duration_str,       \* format_duration result, a sequence of characters
    round_trip,         \* duration_to_ms(duration_str)
    command,            \* which script runs: record_splitter.py or main.py
    ffprobe_ok,         \* whether the duration of the input file can be probed
    abort_reason,       \* None, or the failure that ended the run early
    album_info,         \* main: album_info, with duration_ms per track
    all_aligned_tracks, \* main: all_aligned_tracks
    cut_log,            \* the calls of split_audio_segment, in issue order
    first_failed_cut,   \* index of the first cut that failed, 0 if none did
    exit_status,        \* <<>> while running, <<code>> once the process ended
    complete_printed,   \* "Intelligent track splitting complete." was printed
    starts,             \* detect_silence_intervals: starts (marker times)
    ends,               \* detect_silence_intervals: ends (marker times)
    start_idx,          \* detect_silence_intervals: loop index i
    end_idx,            \* detect_silence_intervals: loop index j
    paired_intervals,   \* detect_silence_intervals: silence_intervals
    paired_ends         \* for each emitted interval, the position of its end
                        \* marker in ends (1-based)

alignVars == <<tracks, silences, start_offset, aligned_tracks>>
breakVars == <<silence_intervals, side_break, side_a_silences, side_b_silences>>

durVars == <<ms, duration_str, round_trip>>

runVars == <<command, ffprobe_ok, abort_reason, album_info, all_aligned_tracks,
             cut_log, first_failed_cut, exit_status, complete_printed>>

pairVars == <<starts, ends, start_idx, end_idx, paired_intervals, paired_ends>>

vars == <<pc, alignVars, breakVars, durVars, runVars, pairVars>>

----------------------------------------------------------------------------
(* Bounds of the model *)

MaxTracks == 3      \* longest track list given to the aligner
MaxSil == 2         \* longest silence list given to the aligner
MaxSilTime == 4     \* largest time stamp of a silence given to the aligner
MaxDur == 2         \* largest expected track duration given to the aligner
MaxOffset == 1      \* largest start_offset
MaxIntervals == 3   \* longest silence list given to the classifier
MaxTime == 5        \* largest time stamp of a silence given to the classifier
MaxMinutes == 11    \* track lengths up to MaxMinutes:59.999
MaxAlbum == 3       \* longest catalog track list of a run
MaxAlbumDur == 2    \* longest catalog track of a run, in seconds
MaxDetected == 3    \* longest silence list detected in a run
MaxDetectTime == 5  \* latest silence detected in a run, in seconds
MaxStarts == 2      \* most "silence start" markers of a diagnostic stream
MaxEnds == 3        \* most "silence end" markers of a diagnostic stream
MaxMarker == 4      \* latest marker time, in ticks
TicksPerMs == 2     \* resolution of the marker times: ticks per millisecond

\* the i-th track of a list carries the i-th title
AlbumTitles == <<"A", "B", "C", "D", "E", "F">>

None == "None"

Abs(x) == IF x < 0 THEN -x ELSE x

SeqsUpTo(S, n) == UNION {[1..k -> S] : k \in 0..n}

\* the silence intervals of the data model: start_ms < end_ms
Intervals(maxT) == {iv \in (0..maxT) \X (0..maxT) : iv[1] < iv[2]}

TrackLists ==
    UNION {{[i \in 1..n |-> [title |-> AlbumTitles[i], duration_ms |-> durs[i]]] :
               durs \in [1..n -> 1..MaxDur]} : n \in 0..MaxTracks}

----------------------------------------------------------------------------
(* record_splitter.py: align_tracks_to_silences *)

\* min(silences, key=lambda s: abs(s[0] - target)): a left-to-right scan
\* that replaces the candidate only by a strictly smaller key
RECURSIVE MinScan(_, _, _, _)
MinScan(sils, target, i, best) ==
    IF i > Len(sils) THEN best
    ELSE MinScan(sils, target, i + 1,
                 IF Abs(sils[i][1] - target) < Abs(best[1] - target)
                 THEN sils[i] ELSE best)

\* the same scan keeping the last of several equidistant silences
RECURSIVE MinScanLast(_, _, _, _)
MinScanLast(sils, target, i, best) ==
    IF i > Len(sils) THEN best
    ELSE MinScanLast(sils, target, i + 1,
                     IF Abs(sils[i][1] - target) <= Abs(best[1] - target)
                     THEN sils[i] ELSE best)

closest_silence_last(sils, target) == MinScanLast(sils, target, 2, sils[1])

closest_silence(sils, target) == MinScan(sils, target, 2, sils[1])

\* body of the fallback loop (lines 80-86)
fallback_track_chainless(track, last_split_point) ==
    [title |-> track.title,
     start_ms |-> last_split_point,
     end_ms |-> track.duration_ms]

fallback_track(track, last_split_point) ==
    [title |-> track.title,
     start_ms |-> last_split_point,
     end_ms |-> last_split_point + track.duration_ms]

\* the fallback loop (lines 79-88)
RECURSIVE FallbackLoop(_, _, _, _)
FallbackLoop(trks, i, last_split_point, acc) ==
    IF i > Len(trks) THEN acc
    ELSE LET t == fallback_track(trks[i], last_split_point) IN
         FallbackLoop(trks, i + 1, t.end_ms, Append(acc, t))

\* the best-fit dict with the track ending where the silence ends
best_fit_track_through_silence(track, closest, last_split_point) ==
    [title |-> track.title,
     start_ms |-> last_split_point,
     end_ms |-> closest[2]]

\* the dict appended by the best-fit loop (lines 99-105)
best_fit_track(track, closest, last_split_point) ==
    [title |-> track.title,
     start_ms |-> last_split_point,
     end_ms |-> closest[1]]

\* the best-fit loop (lines 91-110)
RECURSIVE BestFitLoop(_, _, _, _, _, _, _)
BestFitLoop(trks, sils, offset, i, cumulative_duration, last_split_point, acc) ==
    IF i > Len(trks) THEN acc
    ELSE LET cum == cumulative_duration + trks[i].duration_ms
             closest == closest_silence(sils, offset + cum)
         IN BestFitLoop(trks, sils, offset, i + 1, cum, closest[2],
                        Append(acc, best_fit_track(trks[i], closest,
                                                   last_split_point)))

align_one_per_silence(trks, sils, offset) ==
    IF sils = <<>>
    THEN FallbackLoop(trks, 1, offset, <<>>)
    ELSE LET n == IF Len(trks) < Len(sils) THEN Len(trks) ELSE Len(sils) IN
         BestFitLoop(SubSeq(trks, 1, n), sils, offset, 1, 0, offset, <<>>)

align_tracks_to_silences(trks, sils, offset) ==
    IF sils = <<>>
    THEN FallbackLoop(trks, 1, offset, <<>>)
    ELSE BestFitLoop(trks, sils, offset, 1, 0, offset, <<>>)

----------------------------------------------------------------------------
(* record_splitter.py: find_side_break and the side partition of main *)

\* max(silence_intervals, key=lambda i: i[1] - i[0]): a left-to-right scan
\* that replaces the candidate only by a strictly larger key
RECURSIVE MaxScan(_, _, _)
MaxScan(ivs, i, best) ==
    IF i > Len(ivs) THEN best
    ELSE MaxScan(ivs, i + 1,
                 IF ivs[i][2] - ivs[i][1] > best[2] - best[1]
                 THEN ivs[i] ELSE best)

\* the same scan keeping the last of several longest intervals
RECURSIVE MaxScanLast(_, _, _)
MaxScanLast(ivs, i, best) ==
    IF i > Len(ivs) THEN best
    ELSE MaxScanLast(ivs, i + 1,
                     IF ivs[i][2] - ivs[i][1] >= best[2] - best[1]
                     THEN ivs[i] ELSE best)

find_side_break_last(ivs) ==
    IF ivs = <<>> THEN None ELSE MaxScanLast(ivs, 2, ivs[1])

find_side_break(ivs) ==
    IF ivs = <<>> THEN None ELSE MaxScan(ivs, 2, ivs[1])

\* condition of the side A comprehension (line 156)
in_side_a_inclusive(s, brk) == s[2] <= brk[1]

in_side_a(s, brk) == s[2] < brk[1]

\* condition of the side B comprehension (line 157)
in_side_b(s, brk) == s[1] > brk[2]

\* [s for s in silence_intervals if s[1] < side_break[0]]
RECURSIVE SideA(_, _, _, _)
SideA(ivs, brk, i, acc) ==
    IF i > Len(ivs) THEN acc
    ELSE SideA(ivs, brk, i + 1,
               IF in_side_a(ivs[i], brk) THEN Append(acc, ivs[i]) ELSE acc)

\* [s for s in silence_intervals if s[0] > side_break[1]]
RECURSIVE SideB(_, _, _, _)
SideB(ivs, brk, i, acc) ==
    IF i > Len(ivs) THEN acc
    ELSE SideB(ivs, brk, i + 1,
               IF in_side_b(ivs[i], brk) THEN Append(acc, ivs[i]) ELSE acc)

----------------------------------------------------------------------------
(* fetch_album_data.py: format_duration; record_splitter.py: duration_to_ms *)
(* A Python str is modelled as the sequence of its characters.             *)

DigitChars == <<"0", "1", "2", "3", "4", "5", "6", "7", "8", "9">>

DigitChar(d) == DigitChars[d + 1]

DigitVal(c) == CHOOSE d \in 0..9 : DigitChars[d + 1] = c

\* str(n) for n >= 0
RECURSIVE IntToStr(_)
IntToStr(n) ==
    IF n < 10 THEN <<DigitChar(n)>>
    ELSE Append(IntToStr(n \div 10), DigitChar(n % 10))

\* f"{n:02}" for n >= 0: zero-padded to at least two characters
Pad2(n) == IF n < 10 THEN <<"0", DigitChar(n)>> ELSE IntToStr(n)

\* int(chars) for a non-empty sequence of decimal digits
RECURSIVE StrToInt(_)
StrToInt(chars) ==
    IF Len(chars) = 1 THEN DigitVal(chars[1])
    ELSE StrToInt(SubSeq(chars, 1, Len(chars) - 1)) * 10
         + DigitVal(chars[Len(chars)])

\* chars.split(':'): left-to-right scan collecting the parts
RECURSIVE SplitColon(_, _, _, _)
SplitColon(chars, i, current, parts) ==
    IF i > Len(chars) THEN Append(parts, current)
    ELSE IF chars[i] = ":"
         THEN SplitColon(chars, i + 1, <<>>, Append(parts, current))
         ELSE SplitColon(chars, i + 1, Append(current, chars[i]), parts)

\* "not milliseconds" holds for 0 (and for an absent length, which is not
\* an integer input and is left out here)

\* format_duration that rounds to the nearest second instead of truncating
format_duration_rounding(milliseconds) ==
    IF milliseconds = 0
    THEN <<"0", ":", "0", "0">>
    ELSE LET seconds == (milliseconds + 500) \div 1000
             minutes == seconds \div 60
         IN IntToStr(minutes) \o <<":">> \o Pad2(seconds % 60)

format_duration(milliseconds) ==
    IF milliseconds = 0
    THEN <<"0", ":", "0", "0">>
    ELSE LET seconds == milliseconds \div 1000
             minutes == seconds \div 60
         IN IntToStr(minutes) \o <<":">> \o Pad2(seconds % 60)

duration_to_ms(str) ==
    LET parts == SplitColon(str, 1, <<>>, <<>>)
        minutes == StrToInt(parts[1])
        seconds == StrToInt(parts[2])
    IN (minutes * 60 + seconds) * 1000

----------------------------------------------------------------------------
(* Values of the variables an operation does not use *)

IdleDur ==
    /\ ms = 0
    /\ duration_str = <<>>
    /\ round_trip = 0

IdlePair ==
    /\ starts = <<>>
    /\ ends = <<>>
    /\ start_idx = 0
    /\ end_idx = 0
    /\ paired_intervals = <<>>
    /\ paired_ends = <<>>

NoAlbum == [tracks |-> <<>>, has_side_a_tracks |-> FALSE, side_a_tracks |-> 0]

IdleRun ==
    /\ command = None
    /\ ffprobe_ok = TRUE
    /\ abort_reason = None
    /\ album_info = NoAlbum
    /\ all_aligned_tracks = <<>>
    /\ cut_log = <<>>
    /\ first_failed_cut = 0
    /\ exit_status = <<>>
    /\ complete_printed = FALSE

IdleAlign ==
    /\ tracks = <<>>
    /\ silences = <<>>
    /\ start_offset = 0
    /\ aligned_tracks = <<>>

IdleBreak ==
    /\ silence_intervals = <<>>
    /\ side_break = None
    /\ side_a_silences = <<>>
    /\ side_b_silences = <<>>

----------------------------------------------------------------------------
(* Specification of the aligner: every input within the bounds, then the   *)
(* call.                                                                   *)

InitAlign ==
    /\ pc = "align_input"
    /\ tracks \in TrackLists
    /\ silences \in SeqsUpTo(Intervals(MaxSilTime), MaxSil)
    /\ start_offset \in 0..MaxOffset
    /\ aligned_tracks = <<>>
    /\ IdleBreak
    /\ IdleDur
    /\ IdleRun
    /\ IdlePair

Align ==
    /\ pc = "align_input"
    /\ aligned_tracks' = align_tracks_to_silences(tracks, silences, start_offset)
    /\ pc' = "align_done"
    /\ UNCHANGED <<tracks, silences, start_offset, breakVars, durVars, runVars,
                   pairVars>>

NextAlign == Align

SpecAlign == InitAlign /\ [][NextAlign]_vars

----------------------------------------------------------------------------
(* Specification of the classifier and the partitioner: every silence list *)
(* within the bounds; find_side_break is applied to it, and the two        *)
(* comprehensions of main are applied to it with any of its elements as    *)
(* the side break.                                                         *)

InitClassify ==
    /\ pc = "classify_input"
    /\ silence_intervals \in SeqsUpTo(Intervals(MaxTime), MaxIntervals)
    /\ side_break = None
    /\ side_a_silences = <<>>
    /\ side_b_silences = <<>>
    /\ IdleAlign
    /\ IdleDur
    /\ IdleRun
    /\ IdlePair

FindSideBreak ==
    /\ pc = "classify_input"
    /\ side_break' = find_side_break(silence_intervals)
    /\ pc' = "classified"
    /\ UNCHANGED <<silence_intervals, side_a_silences, side_b_silences,
                   alignVars, durVars, runVars,
                   pairVars>>

Partition ==
    /\ pc = "classify_input"
    /\ \E i \in 1..Len(silence_intervals) :
          /\ side_break' = silence_intervals[i]
          /\ side_a_silences' = SideA(silence_intervals, silence_intervals[i], 1, <<>>)
          /\ side_b_silences' = SideB(silence_intervals, silence_intervals[i], 1, <<>>)
    /\ pc' = "partitioned"
    /\ UNCHANGED <<silence_intervals, alignVars, durVars, runVars, pairVars>>

NextClassify == FindSideBreak \/ Partition

SpecClassify == InitClassify /\ [][NextClassify]_vars

----------------------------------------------------------------------------
(* Specification of the duration conversions: a track length in            *)
(* milliseconds is formatted by format_duration and the string is parsed   *)
(* back by duration_to_ms.                                                 *)

Millis == {0, 1, 499, 500, 501, 999}

DurationInputs ==
    {m * 60000 + sec * 1000 + r : m \in 0..MaxMinutes, sec \in 0..59, r \in Millis}

InitDuration ==
    /\ pc = "duration_input"
    /\ ms \in DurationInputs
    /\ duration_str = <<>>
    /\ round_trip = 0
    /\ IdleAlign
    /\ IdleBreak
    /\ IdleRun
    /\ IdlePair

FormatDuration ==
    /\ pc = "duration_input"
    /\ duration_str' = format_duration(ms)
    /\ pc' = "formatted"
    /\ UNCHANGED <<ms, round_trip, alignVars, breakVars, runVars, pairVars>>

ParseDuration ==
    /\ pc = "formatted"
    /\ round_trip' = duration_to_ms(duration_str)
    /\ pc' = "parsed"
    /\ UNCHANGED <<ms, duration_str, alignVars, breakVars, runVars, pairVars>>

NextDuration == FormatDuration \/ ParseDuration

SpecDuration == InitDuration /\ [][NextDuration]_vars

----------------------------------------------------------------------------
(* The pipeline driver: record_splitter.py main, run as the splitter       *)
(* command, and main.py main, the combined fetch-then-split command.       *)
(* The outcomes of the external tools and the contents of the file system  *)
(* are chosen at the step where the code observes them.                    *)

\* the "M:SS" strings fetch_album_data.py writes for whole-second lengths
CatalogDurations == {format_duration(d * 1000) : d \in 1..MaxAlbumDur}

\* album_data.json entries: the i-th track carries the i-th title
CatalogTracks ==
    UNION {{[i \in 1..n |-> [title |-> AlbumTitles[i], duration |-> durs[i]]] :
               durs \in [1..n -> CatalogDurations]} : n \in 0..MaxAlbum}

AlbumInfos ==
    UNION {{[tracks |-> t, has_side_a_tracks |-> FALSE, side_a_tracks |-> 0]}
           \cup {[tracks |-> t, has_side_a_tracks |-> TRUE, side_a_tracks |-> k] :
                    k \in 0..Len(t)} : t \in CatalogTracks}

\* what the silence detector reports for a recording: intervals in whole
\* seconds, ascending, each one beginning no earlier than the one before
\* it ends
DetectedIntervals ==
    {<<iv[1] * 1000, iv[2] * 1000>> : iv \in Intervals(MaxDetectTime)}

Detections ==
    {d \in SeqsUpTo(DetectedIntervals, MaxDetected) :
        \A i \in 1..(Len(d) - 1) : d[i][2] <= d[i + 1][1]}

\* lines 140-141: track['duration_ms'] = duration_to_ms(track['duration'])
with_duration_ms(info) ==
    [info EXCEPT !.tracks =
        [i \in 1..Len(info.tracks) |->
            [title |-> info.tracks[i].title,
             duration |-> info.tracks[i].duration,
             duration_ms |-> duration_to_ms(info.tracks[i].duration)]]]

\* detect_silence_intervals: [] when ffmpeg fails (lines 28-30), otherwise
\* the intervals paired from its diagnostic stream
detect_silence_intervals(returncode, paired) ==
    IF returncode # 0 THEN <<>> ELSE paired

\* album_info.get('side_a_tracks', len(album_info['tracks']) // 2)
side_a_track_count(info) ==
    IF info.has_side_a_tracks THEN info.side_a_tracks
    ELSE Len(info.tracks) \div 2

\* Python seq[:k] and seq[k:] for an integer k
SliceBound(seq, k) ==
    LET n == Len(seq)
        j == IF k < 0 THEN n + k ELSE k
    IN IF j < 0 THEN 0 ELSE IF j > n THEN n ELSE j

SliceTo(seq, k) == SubSeq(seq, 1, SliceBound(seq, k))

SliceFrom(seq, k) == SubSeq(seq, SliceBound(seq, k) + 1, Len(seq))

\* line 163 with the sides swapped
concat_sides_b_first(aligned_side_a, aligned_side_b) ==
    aligned_side_b \o aligned_side_a

\* line 163: all_aligned_tracks = aligned_side_a + aligned_side_b
concat_sides(aligned_side_a, aligned_side_b) ==
    aligned_side_a \o aligned_side_b

\* lines 152-163
align_both_sides(info, ivs, brk) ==
    LET k == side_a_track_count(info)
        side_a_tracks == SliceTo(info.tracks, k)
        side_b_tracks == SliceFrom(info.tracks, k)
        aligned_side_a ==
            align_tracks_to_silences(side_a_tracks, SideA(ivs, brk, 1, <<>>), 0)
        aligned_side_b ==
            align_tracks_to_silences(side_b_tracks, SideB(ivs, brk, 1, <<>>), brk[2])
    IN concat_sides(aligned_side_a, aligned_side_b)

\* split_audio_segment returns whether ffmpeg exited with 0 (lines 37-44)
split_audio_segment(returncode) == returncode = 0

\* the process ends: a return from main ends the script with status 0, an
\* uncaught exception with status 1
Exit(code, reason) ==
    /\ pc' = "exited"
    /\ exit_status' = <<code>>
    /\ abort_reason' = reason

Init ==
    /\ pc = "start"
    /\ command \in {"splitter", "combined"}
    /\ ffprobe_ok \in BOOLEAN
    /\ abort_reason = None
    /\ album_info = NoAlbum
    /\ all_aligned_tracks = <<>>
    /\ cut_log = <<>>
    /\ first_failed_cut = 0
    /\ exit_status = <<>>
    /\ complete_printed = FALSE
    /\ IdleAlign
    /\ IdleBreak
    /\ IdleDur
    /\ IdlePair

\* main.py lines 23-31: fetch_main(args.input_audio) calls a function that
\* takes no parameter; the TypeError is not a SystemExit, so it is not
\* caught and the combined command ends there with a traceback
CombinedFetch ==
    /\ pc = "start"
    /\ command = "combined"
    /\ Exit(1, "fetch_call")
    /\ UNCHANGED <<command, ffprobe_ok, album_info, all_aligned_tracks,
                   cut_log, first_failed_cut, complete_printed, alignVars, breakVars, durVars,
                   pairVars>>

\* record_splitter.py lines 114-116
ParseFilename ==
    /\ pc = "start"
    /\ command = "splitter"
    /\ \E parsed \in BOOLEAN :
          IF parsed
          THEN /\ pc' = "check_album_file"
               /\ UNCHANGED <<exit_status, abort_reason>>
          ELSE Exit(0, "filename")
    /\ UNCHANGED <<command, ffprobe_ok, album_info, all_aligned_tracks,
                   cut_log, first_failed_cut, complete_printed, alignVars, breakVars, durVars,
                   pairVars>>

\* lines 119-128: the error message names sys.stderr, and record_splitter.py
\* does not import sys, so the missing file ends the run with a NameError
CheckAlbumFile ==
    /\ pc = "check_album_file"
    /\ \E exists \in BOOLEAN :
          IF exists
          THEN /\ pc' = "load_album"
               /\ UNCHANGED <<exit_status, abort_reason>>
          ELSE Exit(1, "no_album_file")
    /\ UNCHANGED <<command, ffprobe_ok, album_info, all_aligned_tracks,
                   cut_log, first_failed_cut, complete_printed, alignVars, breakVars, durVars,
                   pairVars>>

\* lines 130-141
LoadAlbumData ==
    /\ pc = "load_album"
    /\ \E has_key \in BOOLEAN, info \in AlbumInfos :
          IF has_key
          THEN /\ album_info' = with_duration_ms(info)
               /\ pc' = "detect"
               /\ UNCHANGED <<exit_status, abort_reason>>
          ELSE /\ Exit(0, "no_album_key")
               /\ UNCHANGED album_info
    /\ UNCHANGED <<command, ffprobe_ok, all_aligned_tracks, cut_log,
                   first_failed_cut, complete_printed,
                   alignVars, breakVars, durVars,
                   pairVars>>

\* lines 143-149
DetectSilence ==
    /\ pc = "detect"
    /\ \E returncode \in {0, 1}, paired \in Detections :
          /\ silence_intervals' = detect_silence_intervals(returncode, paired)
          /\ side_break' = find_side_break(silence_intervals')
    /\ IF side_break' = None
       THEN Exit(0, "no_side_break")
       ELSE /\ pc' = "partition"
            /\ UNCHANGED <<exit_status, abort_reason>>
    /\ UNCHANGED <<command, ffprobe_ok, album_info, all_aligned_tracks,
                   cut_log, first_failed_cut, complete_printed, side_a_silences, side_b_silences,
                   alignVars, durVars,
                   pairVars>>

\* lines 151-169
PartitionAndAlign ==
    /\ pc = "partition"
    /\ side_a_silences' = SideA(silence_intervals, side_break, 1, <<>>)
    /\ side_b_silences' = SideB(silence_intervals, side_break, 1, <<>>)
    /\ all_aligned_tracks' =
           align_both_sides(album_info, silence_intervals, side_break)
    /\ pc' = "cutting"
    /\ UNCHANGED <<command, ffprobe_ok, album_info, cut_log, first_failed_cut,
                   complete_printed, exit_status, abort_reason,
                   silence_intervals, side_break,
                   alignVars, durVars,
                   pairVars>>

\* lines 173-178, one iteration: the result of the cut is not looked at
Cut ==
    /\ pc = "cutting"
    /\ Len(cut_log) < Len(all_aligned_tracks)
    /\ \E returncode \in {0, 1} :
          LET i == Len(cut_log) + 1
              track == all_aligned_tracks[i]
          IN /\ cut_log' = Append(cut_log,
                    [index |-> i,
                     title |-> track.title,
                     start_ms |-> track.start_ms,
                     end_ms |-> track.end_ms])
             /\ first_failed_cut' =
                    IF first_failed_cut = 0 /\ ~split_audio_segment(returncode)
                    THEN i ELSE first_failed_cut
    /\ UNCHANGED <<pc, command, ffprobe_ok, album_info, all_aligned_tracks,
                   complete_printed, exit_status, abort_reason,
                   alignVars, breakVars, durVars,
                   pairVars>>

\* line 180 and the end of the script
Finish ==
    /\ pc = "cutting"
    /\ Len(cut_log) = Len(all_aligned_tracks)
    /\ complete_printed' = TRUE
    /\ Exit(0, None)
    /\ UNCHANGED <<command, ffprobe_ok, album_info, all_aligned_tracks,
                   cut_log, first_failed_cut, alignVars, breakVars, durVars,
                   pairVars>>

Next ==
    \/ CombinedFetch
    \/ ParseFilename
    \/ CheckAlbumFile
    \/ LoadAlbumData
    \/ DetectSilence
    \/ PartitionAndAlign
    \/ Cut
    \/ Finish

Spec == Init /\ [][Next]_vars

----------------------------------------------------------------------------
(* detect_silence.py: the pairing loop of detect_silence_intervals (lines  *)
(* 57-66).  A marker time is a number of ticks, TicksPerMs ticks to the    *)
(* millisecond, so that markers less than a millisecond apart exist;       *)
(* int(t * 1000) truncates a marker time to whole milliseconds.            *)

to_ms(t) == t \div TicksPerMs

InitPairing ==
    /\ pc = "pairing"
    /\ starts \in SeqsUpTo(0..MaxMarker, MaxStarts)
    /\ ends \in SeqsUpTo(0..MaxMarker, MaxEnds)
    /\ start_idx = 0
    /\ end_idx = 0
    /\ paired_intervals = <<>>
    /\ paired_ends = <<>>
    /\ IdleAlign
    /\ IdleBreak
    /\ IdleDur
    /\ IdleRun

\* while i < len(starts) and j < len(ends)
LoopGuard == start_idx < Len(starts) /\ end_idx < Len(ends)

\* lines 59-62: starts[i] < ends[j]
PairStep ==
    /\ pc = "pairing"
    /\ LoopGuard
    /\ starts[start_idx + 1] < ends[end_idx + 1]
    /\ paired_intervals' = Append(paired_intervals, <<to_ms(starts[start_idx + 1]),
                                  to_ms(ends[end_idx + 1])>>)
    /\ paired_ends' = Append(paired_ends, end_idx + 1)
    /\ start_idx' = start_idx + 1
    /\ end_idx' = end_idx + 1
    /\ UNCHANGED <<pc, starts, ends, alignVars, breakVars, durVars, runVars>>

\* lines 63-64: the end marker is skipped
DiscardStep ==
    /\ pc = "pairing"
    /\ LoopGuard
    /\ ~(starts[start_idx + 1] < ends[end_idx + 1])
    /\ end_idx' = end_idx + 1
    /\ UNCHANGED <<pc, starts, ends, start_idx, paired_intervals, paired_ends,
                   alignVars, breakVars, durVars, runVars>>

\* line 66: the loop is left and the list returned
PairingDone ==
    /\ pc = "pairing"
    /\ ~LoopGuard
    /\ pc' = "pairing_done"
    /\ UNCHANGED <<pairVars, alignVars, breakVars, durVars, runVars>>

NextPairing == PairStep \/ DiscardStep \/ PairingDone

SpecPairing == InitPairing /\ [][NextPairing]_vars

\* the loop is a sequential program: it takes its next step whenever it
\* has one
FairPairing == SpecPairing /\ WF_vars(NextPairing)

----------------------------------------------------------------------------
(* Properties of the aligner *)

IsAscending(sils) ==
    \A i \in 1..(Len(sils) - 1) : sils[i][1] <= sils[i + 1][1]

\* sum of duration_ms of tracks 1..k
SumDur(trks, k) ==
    LET S[i \in 0..k] == IF i = 0 THEN 0 ELSE S[i - 1] + trks[i].duration_ms
    IN S[k]

\* index of the silence the k-th track must take: nearest start_ms to the
\* expected end point, the earliest index among equidistant ones
NearestIndex(sils, target) ==
    CHOOSE i \in 1..Len(sils) :
        /\ \A j \in 1..Len(sils) :
               Abs(sils[i][1] - target) <= Abs(sils[j][1] - target)
        /\ \A j \in 1..(i - 1) :
               Abs(sils[j][1] - target) > Abs(sils[i][1] - target)

ChosenSilence(k) ==
    silences[NearestIndex(silences, start_offset + SumDur(tracks, k))]

\* C1: for every non-empty track list, every silence list and every
\* start_offset the aligner returns exactly one aligned track per expected
\* track, in the same order and with the same titles.
C1_Cardinality ==
    (pc = "align_done" /\ Len(tracks) > 0) =>
        /\ Len(aligned_tracks) = Len(tracks)
        /\ \A i \in 1..Len(tracks) : aligned_tracks[i].title = tracks[i].title

\* best-fit mode with fewer silences than tracks and two different titles
C1_Witness ==
    /\ pc = "align_done"
    /\ Len(tracks) = 3
    /\ Len(silences) = 1
    /\ tracks[1].title # tracks[2].title
    /\ silences # <<>>
    /\ Len(aligned_tracks) = 3

\* C2 (as claimed): every aligned track satisfies 0 <= start_ms < end_ms
\* whenever the silences are ascending intervals with start_ms < end_ms,
\* the durations are positive and start_offset >= 0.
C2_AlignedTrackRange ==
    (pc = "align_done" /\ IsAscending(silences)) =>
        \A i \in 1..Len(aligned_tracks) :
            /\ 0 <= aligned_tracks[i].start_ms
            /\ aligned_tracks[i].start_ms < aligned_tracks[i].end_ms

\* C3: in best-fit mode the k-th track ends at the start_ms of the silence
\* nearest to start_offset + (sum of the first k durations), the earliest
\* index winning a tie; it starts at start_offset (k = 1) or at the end_ms
\* of the silence chosen for track k - 1.
C3_BestFit ==
    (pc = "align_done" /\ silences # <<>>) =>
        \A k \in 1..Len(tracks) :
            /\ k <= Len(aligned_tracks)
            /\ aligned_tracks[k].end_ms = ChosenSilence(k)[1]
            /\ aligned_tracks[k].start_ms =
                  IF k = 1 THEN start_offset ELSE ChosenSilence(k - 1)[2]

\* two tracks, the second one with two equidistant silences to choose from
C3_Witness ==
    /\ pc = "align_done"
    /\ Len(tracks) = 2
    /\ Len(silences) = 2
    /\ silences[1][1] # silences[2][1]
    /\ Abs(silences[1][1] - (start_offset + SumDur(tracks, 2)))
         = Abs(silences[2][1] - (start_offset + SumDur(tracks, 2)))
    /\ aligned_tracks[2].end_ms = silences[1][1]
    /\ aligned_tracks[2].start_ms = ChosenSilence(1)[2]

\* C4: with no silences the tracks are laid out back-to-back from
\* start_offset: end_ms = start_ms + duration_ms and each later start_ms is
\* the previous end_ms, so the last end_ms is start_offset + sum of durations.
C4_Fallback ==
    (pc = "align_done" /\ silences = <<>>) =>
        /\ Len(aligned_tracks) = Len(tracks)
        /\ \A i \in 1..Len(aligned_tracks) :
              /\ aligned_tracks[i].start_ms =
                    IF i = 1 THEN start_offset ELSE aligned_tracks[i - 1].end_ms
              /\ aligned_tracks[i].end_ms =
                    aligned_tracks[i].start_ms + tracks[i].duration_ms
        /\ Len(tracks) > 0 =>
              aligned_tracks[Len(tracks)].end_ms =
                  start_offset + SumDur(tracks, Len(tracks))

\* two chained tracks from a positive offset
C4_Witness ==
    /\ pc = "align_done"
    /\ silences = <<>>
    /\ Len(tracks) = 2
    /\ start_offset > 0
    /\ aligned_tracks[2].start_ms = start_offset + tracks[1].duration_ms

\* C12: consecutive aligned tracks never overlap and keep catalog order on
\* the time axis: the later track starts at the earlier track's end in the
\* no-silence fallback, and later than it by the length of the silence
\* chosen for the earlier track in best-fit mode.
C12_NoOverlap ==
    pc = "align_done" =>
        \A i \in 1..(Len(aligned_tracks) - 1) :
            /\ aligned_tracks[i + 1].start_ms >= aligned_tracks[i].end_ms
            /\ silences = <<>> =>
                  aligned_tracks[i + 1].start_ms = aligned_tracks[i].end_ms
            /\ silences # <<>> =>
                  /\ aligned_tracks[i + 1].start_ms > aligned_tracks[i].end_ms
                  /\ aligned_tracks[i + 1].start_ms - aligned_tracks[i].end_ms
                        = ChosenSilence(i)[2] - ChosenSilence(i)[1]

\* three tracks in best-fit mode, separated by two silences of different
\* lengths
C12_Witness ==
    /\ pc = "align_done"
    /\ Len(aligned_tracks) = 3
    /\ Len(silences) = 2
    /\ ChosenSilence(1) # ChosenSilence(2)
    /\ aligned_tracks[2].start_ms - aligned_tracks[1].end_ms
         # aligned_tracks[3].start_ms - aligned_tracks[2].end_ms
    /\ aligned_tracks[2].start_ms > aligned_tracks[1].end_ms
    /\ aligned_tracks[3].start_ms > aligned_tracks[2].end_ms

----------------------------------------------------------------------------
(* Properties of the classifier and the partitioner *)

IntervalLen(iv) == iv[2] - iv[1]

Elements(seq) == {seq[i] : i \in 1..Len(seq)}

\* C5: find_side_break returns None exactly for the empty list; otherwise
\* it returns an element at least as long as every other element, the
\* first in input order among the longest.
C5_SideBreak ==
    pc = "classified" =>
        /\ (side_break = None) <=> (silence_intervals = <<>>)
        /\ silence_intervals # <<>> =>
              \E i \in 1..Len(silence_intervals) :
                  /\ side_break = silence_intervals[i]
                  /\ \A j \in 1..Len(silence_intervals) :
                        IntervalLen(silence_intervals[j])
                            <= IntervalLen(silence_intervals[i])
                  /\ \A j \in 1..(i - 1) :
                        IntervalLen(silence_intervals[j])
                            < IntervalLen(silence_intervals[i])

\* two different longest intervals, the first of them not at the head
C5_Witness ==
    /\ pc = "classified"
    /\ Len(silence_intervals) = 3
    /\ IntervalLen(silence_intervals[1]) < IntervalLen(silence_intervals[2])
    /\ IntervalLen(silence_intervals[2]) = IntervalLen(silence_intervals[3])
    /\ silence_intervals[2] # silence_intervals[3]
    /\ side_break = silence_intervals[2]

\* C6: silences_a is exactly the silences ending strictly before the side
\* break starts and silences_b exactly those starting strictly after it
\* ends, each in input order; the two are disjoint and the side break (and
\* any interval equal to it) is in neither.
C6_Partition ==
    pc = "partitioned" =>
        LET Before(s) == s[2] < side_break[1]
            After(s) == s[1] > side_break[2]
        IN /\ side_a_silences = SelectSeq(silence_intervals, Before)
           /\ side_b_silences = SelectSeq(silence_intervals, After)
           /\ Elements(side_a_silences) \cap Elements(side_b_silences) = {}
           /\ side_break \notin Elements(side_a_silences)
           /\ side_break \notin Elements(side_b_silences)

\* a silence on each side of the break
C6_Witness ==
    /\ pc = "partitioned"
    /\ Len(silence_intervals) = 3
    /\ Len(side_a_silences) = 1
    /\ Len(side_b_silences) = 1
    /\ side_break = silence_intervals[2]

----------------------------------------------------------------------------
(* Properties of the duration conversions *)

\* C10 (as claimed): duration_to_ms(format_duration(ms)) is the multiple of
\* 1000 nearest to ms.
C10_RoundTripNearest ==
    pc = "parsed" =>
        /\ round_trip % 1000 = 0
        /\ 2 * Abs(round_trip - ms) <= 1000

\* C10 (amended): duration_to_ms(format_duration(ms)) is ms truncated to
\* whole seconds: the largest multiple of 1000 not exceeding ms.
C10_RoundTripTruncates ==
    pc = "parsed" =>
        /\ round_trip % 1000 = 0
        /\ round_trip <= ms
        /\ ms < round_trip + 1000

\* a length of ten minutes or more, a one-digit seconds field and a
\* remainder above half a second
C10_Witness ==
    /\ pc = "parsed"
    /\ ms >= 600000
    /\ (ms \div 1000) % 60 < 10
    /\ ms % 1000 > 500
    /\ Len(duration_str) = 5
    /\ round_trip = ms - (ms % 1000)

----------------------------------------------------------------------------
(* Properties of the pipeline driver *)

\* C7 (as claimed): the segment cutter is never invoked in a run in which
\* the album metadata is missing, no side break can be classified or the
\* total audio duration cannot be determined.
C7_AbortWithoutCut ==
    (\/ abort_reason \in {"no_album_file", "no_album_key", "no_side_break"}
     \/ ~ffprobe_ok)
        => cut_log = <<>>

\* C8 (as claimed): every run that aborted has ended with a nonzero exit
\* status and without reporting completion.
C8_AbortExitsNonzero ==
    (pc = "exited" /\ abort_reason # None) =>
        /\ exit_status # <<0>>
        /\ ~complete_printed

\* C9: the cuts are issued one per catalog track, sequentially and in
\* catalog order, numbered from 1 (side A's tracks, then side B's, side B
\* starting at the side break's end_ms); a run that did not abort has cut
\* every track, whatever cuts failed.
C9_CutsInOrder ==
    LET catalog == album_info.tracks
        k == side_a_track_count(album_info)
    IN /\ Len(cut_log) <= Len(catalog)
       /\ \A i \in 1..Len(cut_log) :
             /\ cut_log[i].index = i
             /\ cut_log[i].title = catalog[i].title
             /\ cut_log[i].start_ms = all_aligned_tracks[i].start_ms
             /\ cut_log[i].end_ms = all_aligned_tracks[i].end_ms
       /\ (k >= 1 /\ Len(cut_log) >= 1) => cut_log[1].start_ms = 0
       /\ Len(cut_log) > k => cut_log[k + 1].start_ms = side_break[2]
       /\ (pc = "exited" /\ abort_reason = None) =>
             /\ Len(cut_log) = Len(catalog)
             /\ complete_printed

\* a completed run over three tracks, two on side A, whose first cut failed
C9_Witness ==
    /\ pc = "exited"
    /\ abort_reason = None
    /\ Len(album_info.tracks) = 3
    /\ side_a_track_count(album_info) = 2
    /\ Len(cut_log) = 3
    /\ first_failed_cut = 1
    /\ side_a_silences # <<>>
    /\ cut_log[3].start_ms = side_break[2]

----------------------------------------------------------------------------
(* Properties of the pairing loop *)

MarkersAscending(markers) ==
    \A k \in 1..(Len(markers) - 1) : markers[k] <= markers[k + 1]

\* position in ends of the end marker paired_intervals before the k-th interval
PreviousEnd(k) == IF k = 1 THEN 0 ELSE paired_ends[k - 1]

\* The loop pairs successive starts and ends in order: the k-th interval
\* is made of the k-th start and the first end marker, after the one used
\* by interval k - 1, that is later than it; every end marker passed over
\* is not later than the start left unpaired at that moment; the loop has
\* taken end_idx <= len(ends) iterations; ascending markers give a list
\* ascending by start_ms.
PairingStructure ==
    /\ end_idx <= Len(ends)
    /\ start_idx = Len(paired_intervals)
    /\ Len(paired_ends) = Len(paired_intervals)
    /\ pc = "pairing_done" =>
          /\ \A k \in 1..Len(paired_intervals) :
                /\ paired_ends[k] \in (PreviousEnd(k) + 1)..end_idx
                /\ paired_intervals[k] = <<to_ms(starts[k]), to_ms(ends[paired_ends[k]])>>
                /\ starts[k] < ends[paired_ends[k]]
                /\ \A d \in (PreviousEnd(k) + 1)..(paired_ends[k] - 1) :
                      ends[d] <= starts[k]
          /\ \A d \in (PreviousEnd(Len(paired_intervals) + 1) + 1)..end_idx :
                /\ Len(paired_intervals) < Len(starts)
                /\ ends[d] <= starts[Len(paired_intervals) + 1]
          /\ Len(paired_intervals) < Len(starts) => end_idx = Len(ends)
          /\ (MarkersAscending(starts) /\ MarkersAscending(ends)) =>
                \A k \in 1..(Len(paired_intervals) - 1) : paired_intervals[k][1] <= paired_intervals[k + 1][1]

\* C11 (as claimed): the pairing loop terminates, pairs successive start
\* and end markers in order, discards an end marker only when it is not
\* later than the current unpaired start, pairs each start with the first
\* remaining later end, emits a list ascending by start_ms for ascending
\* markers, and every emitted interval has start_ms < end_ms.
C11_Pairing ==
    /\ PairingStructure
    /\ \A k \in 1..Len(paired_intervals) : paired_intervals[k][1] < paired_intervals[k][2]

\* the loop terminates
PairingTerminates == <>(pc = "pairing_done")

====
